---- MODULE Spec2Model ----
(***************************************************************************)
(* Model of enable-dependabot-auto-merge (src/main.py): a linear pipeline   *)
(* that clones a GitHub repository into a temporary directory, raises the  *)
(* repository's Actions permissions, installs a workflow file unless an    *)
(* equivalent one is present, pushes it on a fixed branch, opens a pull    *)
(* request and assigns the acting user.                                    *)
(*                                                                         *)
(* Text is modelled as sequences of one-character strings, a YAML file as  *)
(* a sequence of lines, the remote repository and the GitHub REST API as   *)
(* the environment (their answers are drawn nondeterministically).         *)
(***************************************************************************)
EXTENDS Integers, Sequences, FiniteSets, TLC

\* ------------------------------------------------------------- bounds
\* Longest repository name (in characters) enumerated for URL resolution.
MaxNameLen == 5
\* Longest workflow file (in lines) found in the target repository.
MaxLines == 3
\* Number of times the tool is run against the same repository.
MaxRuns == 2

\* ---------------------------------------------------- program constants
\* requests.put answer that set_github_actions_permissions takes as success.
StatusNoContent == 204
\* Answer that create_pull_request / add_assignees take as success.
StatusCreated == 201

\* ------------------------------------------------------------- strings
RECURSIVE SeqsUpTo(_, _)
\* All sequences over S of length 0..n.
SeqsUpTo(S, n) ==
    IF n = 0 THEN {<<>>}
    ELSE LET shorter == SeqsUpTo(S, n - 1)
         IN  shorter \cup {Append(s, x) : s \in {t \in shorter : Len(t) = n - 1}, x \in S}

DotGit == <<".", "g", "i", "t">>
Slash == "/"
ApiPrefix == <<"https://api.github.com/repos/">>

HasPrefix(s, p) == Len(s) >= Len(p) /\ SubSeq(s, 1, Len(p)) = p
HasSuffix(s, p) == Len(s) >= Len(p) /\ SubSeq(s, Len(s) - Len(p) + 1, Len(s)) = p
Drop(s, n) == SubSeq(s, n + 1, Len(s))

RECURSIVE LStrip(_, _)
LStrip(s, c) == IF s # <<>> /\ Head(s) = c THEN LStrip(Tail(s), c) ELSE s

RECURSIVE RStrip(_, _)
RStrip(s, c) ==
    IF s # <<>> /\ s[Len(s)] = c THEN RStrip(SubSeq(s, 1, Len(s) - 1), c) ELSE s

\* str.strip("/")
Strip(s, c) == RStrip(LStrip(s, c), c)

RECURSIVE Split(_, _)
\* str.split("/"): the list of the pieces between separators (never empty).
Split(s, c) ==
    IF \A i \in 1..Len(s) : s[i] # c THEN <<s>>
    ELSE LET i == CHOOSE j \in 1..Len(s) : s[j] = c /\ \A k \in 1..(j - 1) : s[k] # c
         IN  <<SubSeq(s, 1, i - 1)>> \o Split(Drop(s, i), c)

RECURSIVE ReplaceAll(_, _, _)
\* str.replace(old, new): every non-overlapping occurrence, left to right.
ReplaceAll(s, old, new) ==
    IF s = <<>> THEN <<>>
    ELSE IF HasPrefix(s, old) THEN new \o ReplaceAll(Drop(s, Len(old)), old, new)
    ELSE <<Head(s)>> \o ReplaceAll(Tail(s), old, new)

\* path_parts of get_api_url (line 25), from the URL's path.
PathParts(path) == Split(Strip(path, Slash), Slash)

\* get_api_url raises IndexError at line 26 when there is no second part.
ApiUrlRaises(path) == Len(PathParts(path)) < 2

\* get_api_url (lines 23-29), for a path with two parts or more.
get_api_url(path) ==
    LET path_parts == PathParts(path)
        user == path_parts[1]
        repo == ReplaceAll(path_parts[2], DotGit, <<>>)
    IN  ApiPrefix \o user \o <<Slash>> \o repo

\* ---------------------------------------------------------------- YAML
\* A line of a workflow file: a comment, a top-level "key: value" pair, or
\* text that the YAML parser rejects.
Comment == [t |-> "comment", k |-> "", v |-> ""]
BadLine == [t |-> "bad", k |-> "", v |-> ""]
KV(k, v) == [t |-> "kv", k |-> k, v |-> v]
Lines == {Comment, BadLine, KV("name", "a"), KV("name", "b"), KV("on", "a")}

\* The template shipped beside main.py (dependabot-auto-merge.yml).
Template == <<KV("name", "a"), KV("on", "a")>>

NoFile == [exists |-> FALSE, text |-> <<>>]
File(text) == [exists |-> TRUE, text |-> text]

\* yaml.safe_load raises yaml.YAMLError on text it cannot parse.
YamlRaises(text) == \E i \in 1..Len(text) : text[i].t = "bad"

\* yaml.safe_load: comments dropped, a mapping from keys to values where
\* the last of several lines with one key wins, None for an empty document.
safe_load(text) ==
    LET kvs == {i \in 1..Len(text) : text[i].t = "kv"}
        last(k) == CHOOSE i \in kvs : text[i].k = k /\ \A j \in kvs : text[j].k = k => j <= i
    IN  IF kvs = {} THEN [kind |-> "none", map |-> {}]
        ELSE [kind |-> "map",
              map |-> {<<text[i].k, text[i].v>> : i \in {j \in kvs : j = last(text[j].k)}}]

\* Variant comparing the files' text instead of their parsed content.
is_yaml_content_same_text(existing, new) ==
    existing.exists /\ existing.text = new.text

\* is_yaml_content_same (lines 40-47), when neither safe_load raises.
is_yaml_content_same(existing, new) ==
    IF ~existing.exists THEN FALSE
    ELSE safe_load(existing.text) = safe_load(new.text)

\* The check raises when the existing file is present and is not YAML.
YamlCheckRaises(existing, new) ==
    existing.exists /\ (YamlRaises(existing.text) \/ YamlRaises(new.text))

\* ------------------------------------------------------------- state
VARIABLES
    env,            \* which of the four settings the environment holds
    repo_url,       \* path of the repository URL given on the command line
    defaultBranch,  \* name of the target repository's default branch
    remoteFile,     \* the workflow file on the default branch at origin
    remoteBranch,   \* TRUE when origin has branch enable-dependabot-auto-merge
    prCount,        \* pull requests GitHub has created so far
    perms,          \* the repository's default workflow permission
    run,            \* ordinal of the current run of the tool
    history,        \* one summary per finished earlier run
    pc,             \* position of the current run in __main__
    outcome,        \* "running", "completed", "exit0" or "raised"
    github_api_url, \* result of get_api_url, <<>> before it is computed
    tmp,            \* the TemporaryDirectory: created, exists, rmtree called
    localFile,      \* the workflow file in the working copy
    work,           \* the working copy: cloned, branch, committed, pushed
    calls,          \* REST requests issued by the current run, in order
    issue_number,   \* value returned by create_pull_request, 0 before
    yamlSame,       \* result of the idempotency check of the current run
    output          \* messages printed by the current run

remoteVars == <<env, repo_url, defaultBranch, remoteFile, remoteBranch, prCount, perms>>
runVars == <<run, history, pc, outcome, github_api_url, tmp, localFile, work, calls,
             issue_number, yamlSame, output>>
vars == <<env, repo_url, defaultBranch, remoteFile, remoteBranch, prCount, perms,
          run, history, pc, outcome, github_api_url, tmp, localFile, work, calls,
          issue_number, yamlSame, output>>

Settings == {"GITHUB_TOKEN", "GITHUB_USERNAME", "COMMIT_USER", "COMMIT_EMAIL"}
BranchName == "enable-dependabot-auto-merge"

\* A well-formed URL path (/u/r.git) and one with a single part (/u).
MainUrls == {<<"/", "u", "/", "r", ".", "g", "i", "t">>, <<"/", "u">>}

NoTmp == [created |-> FALSE, exists |-> FALSE, rmtree |-> FALSE]
NoWork == [cloned |-> FALSE, dir |-> FALSE, branch |-> FALSE, committed |-> FALSE,
           pushed |-> FALSE]

\* State of one run before its first statement.
FreshRun ==
    /\ pc = "start"
    /\ outcome = "running"
    /\ github_api_url = <<>>
    /\ tmp = NoTmp
    /\ localFile = NoFile
    /\ work = NoWork
    /\ calls = <<>>
    /\ issue_number = 0
    /\ yamlSame = "unchecked"
    /\ output = {}

Init ==
    /\ env \in [Settings -> BOOLEAN]
    /\ repo_url \in MainUrls
    /\ defaultBranch \in {"main", "master"}
    /\ remoteFile \in {NoFile} \cup {File(t) : t \in SeqsUpTo(Lines, MaxLines)}
    /\ remoteBranch = FALSE
    /\ prCount = 0
    /\ perms = "read"
    /\ run = 1
    /\ history = <<>>
    /\ FreshRun

\* ------------------------------------------------- the REST environment
Response(status, json) == [raised |-> FALSE, status |-> status, json |-> json]
\* requests raising instead of returning (requests.ConnectionError).
ConnectionError == [raised |-> TRUE, status |-> 0, json |-> FALSE]

\* Answers to PUT {api}/actions/permissions/workflow.
PutAnswers == {Response(StatusNoContent, FALSE), Response(403, TRUE), ConnectionError}
\* Answers to POST {api}/pulls; a gateway's 502 carries no JSON body.
PullAnswers == {Response(StatusCreated, TRUE), Response(200, TRUE), Response(422, TRUE),
                Response(502, FALSE), ConnectionError}
\* Answers to POST {api}/issues/{number}/assignees.
AssigneeAnswers == {Response(StatusCreated, TRUE), Response(404, TRUE),
                    Response(502, FALSE), ConnectionError}

Call(op, head, base, number, answer) ==
    [op |-> op, url |-> github_api_url, auth |-> env["GITHUB_TOKEN"], head |-> head,
     base |-> base, number |-> number, answer |-> answer]

\* response.json() raises when the body is not JSON.
JsonRaises(answer) == ~answer.json

\* -------------------------------------------------------------- actions
\* An exception (or SystemExit) leaves the with block through its __exit__.
Unwind(how) == pc' = "unwind" /\ outcome' = how

\* shutil.rmtree(local_path), lines 32-33.
delete_local_repo(t) == [t EXCEPT !.exists = FALSE, !.rmtree = TRUE]

\* Variant for a directory made with mkdtemp: nothing removes it on exit.
TmpCleanupKeep(exists) == [exists |-> exists, raises |-> FALSE]

\* TemporaryDirectory.__exit__ -> cleanup(): removes the directory and
\* ignores FileNotFoundError when it is already gone.
TmpCleanup(exists) == [exists |-> FALSE, raises |-> FALSE]

\* Lines 124-131: read the settings and the argument, resolve the API URL.
ResolveUrl ==
    /\ pc = "start"
    /\ \/ /\ ApiUrlRaises(repo_url)
          /\ pc' = "done"
          /\ outcome' = "raised"
          /\ UNCHANGED github_api_url
       \/ /\ ~ApiUrlRaises(repo_url)
          /\ github_api_url' = get_api_url(repo_url)
          /\ pc' = "tmpdir"
          /\ UNCHANGED outcome
    /\ UNCHANGED <<remoteVars, run, history, tmp, localFile, work, calls, issue_number,
                   yamlSame, output>>

\* Lines 133-134: with tempfile.TemporaryDirectory() as temp_dir.
EnterTmp ==
    /\ pc = "tmpdir"
    /\ tmp' = [created |-> TRUE, exists |-> TRUE, rmtree |-> FALSE]
    /\ pc' = "clone"
    /\ UNCHANGED <<remoteVars, run, history, outcome, github_api_url, localFile, work,
                   calls, issue_number, yamlSame, output>>

\* Variant in which a failed clone is swallowed and the run goes on.
CloneRepoSwallow ==
    /\ pc = "clone"
    /\ \/ /\ work' = [work EXCEPT !.cloned = TRUE]
          /\ localFile' = remoteFile
       \/ UNCHANGED <<work, localFile>>
    /\ pc' = "perm"
    /\ UNCHANGED <<remoteVars, run, history, outcome, github_api_url, tmp, calls,
                   issue_number, yamlSame, output>>

\* Line 135, clone_repo: the default branch is checked out, or git raises.
CloneRepo ==
    /\ pc = "clone"
    /\ \/ /\ work' = [work EXCEPT !.cloned = TRUE]
          /\ localFile' = remoteFile
          /\ pc' = "perm"
          /\ UNCHANGED outcome
       \/ /\ Unwind("raised")
          /\ UNCHANGED <<work, localFile>>
    /\ UNCHANGED <<remoteVars, run, history, github_api_url, tmp, calls, issue_number,
                   yamlSame, output>>

\* Line 136, set_github_actions_permissions (lines 68-84).
SetPermissions ==
    /\ pc = "perm"
    /\ \E answer \in PutAnswers :
          /\ calls' = Append(calls, Call("PUT permissions", "", "", 0, answer))
          /\ \/ /\ answer.raised
                /\ Unwind("raised")
                /\ UNCHANGED <<output, perms>>
             \/ /\ ~answer.raised
                /\ answer.status = StatusNoContent
                /\ output' = output \cup {"permissions updated"}
                /\ perms' = "write"
                /\ pc' = "mkdir"
                /\ UNCHANGED outcome
             \/ /\ ~answer.raised
                /\ answer.status # StatusNoContent
                /\ output' = output \cup {"permissions failed"}
                /\ pc' = "mkdir"
                /\ UNCHANGED <<outcome, perms>>
    /\ UNCHANGED <<env, repo_url, defaultBranch, remoteFile, remoteBranch, prCount,
                   run, history, github_api_url, tmp, localFile, work, issue_number,
                   yamlSame>>

\* Line 137, create_folder_structure (lines 36-37).
CreateFolderStructure ==
    /\ pc = "mkdir"
    /\ work' = [work EXCEPT !.dir = TRUE]
    /\ pc' = "check"
    /\ UNCHANGED <<remoteVars, run, history, outcome, github_api_url, tmp, localFile,
                   calls, issue_number, yamlSame, output>>

\* Lines 138-147: the idempotency check and its early exit.
CheckYaml ==
    /\ pc = "check"
    /\ \/ /\ YamlCheckRaises(localFile, File(Template))
          /\ yamlSame' = "error"
          /\ Unwind("raised")
          /\ UNCHANGED <<tmp, output>>
       \/ /\ ~YamlCheckRaises(localFile, File(Template))
          /\ is_yaml_content_same(localFile, File(Template))
          /\ yamlSame' = "same"
          /\ output' = output \cup {"already enabled"}
          /\ tmp' = delete_local_repo(tmp)
          /\ Unwind("exit0")
       \/ /\ ~YamlCheckRaises(localFile, File(Template))
          /\ ~is_yaml_content_same(localFile, File(Template))
          /\ yamlSame' = "different"
          /\ pc' = "copy"
          /\ UNCHANGED <<outcome, tmp, output>>
    /\ UNCHANGED <<remoteVars, run, history, github_api_url, localFile, work, calls,
                   issue_number>>

\* Line 148: shutil.copy(yaml_file_path, dest_yaml_path).
CopyTemplate ==
    /\ pc = "copy"
    /\ localFile' = File(Template)
    /\ pc' = "push"
    /\ UNCHANGED <<remoteVars, run, history, outcome, github_api_url, tmp, work, calls,
                   issue_number, yamlSame, output>>

\* Line 149, commit_and_push (lines 58-65): branch, commit, push. Origin
\* rejects the push when the branch is already there with another commit;
\* otherwise the push goes through or git raises.
CommitAndPush ==
    /\ pc = "push"
    /\ \E delivered \in BOOLEAN :
          LET accepted == delivered /\ ~remoteBranch
          IN  /\ work' = [work EXCEPT !.branch = TRUE, !.committed = TRUE,
                                        !.pushed = accepted]
              /\ remoteBranch' = (remoteBranch \/ accepted)
              /\ IF accepted THEN pc' = "pr" /\ UNCHANGED outcome
                              ELSE Unwind("raised")
    /\ UNCHANGED <<env, repo_url, defaultBranch, remoteFile, prCount, perms, run, history,
                   github_api_url, tmp, localFile, calls, issue_number, yamlSame, output>>

\* Line 150, create_pull_request (lines 87-104).
CreatePullRequest ==
    /\ pc = "pr"
    /\ \E answer \in PullAnswers :
          /\ calls' = Append(calls, Call("POST pulls", BranchName, "main", 0, answer))
          /\ prCount' = IF ~answer.raised /\ answer.status = StatusCreated
                         THEN prCount + 1 ELSE prCount
          /\ \/ /\ answer.raised \/ JsonRaises(answer)
                /\ Unwind("raised")
                /\ UNCHANGED <<issue_number, output>>
             \/ /\ ~answer.raised /\ ~JsonRaises(answer)
                /\ answer.status # StatusCreated
                /\ output' = output \cup {"pull request failed"}
                /\ issue_number' = -1
                /\ pc' = "assign"
                /\ UNCHANGED outcome
             \/ /\ ~answer.raised /\ ~JsonRaises(answer)
                /\ answer.status = StatusCreated
                /\ output' = output \cup {"pull request created"}
                /\ issue_number' = prCount + 1
                /\ pc' = "assign"
                /\ UNCHANGED outcome
    /\ UNCHANGED <<env, repo_url, defaultBranch, remoteFile, remoteBranch, perms, run,
                   history, github_api_url, tmp, localFile, work, yamlSame>>

\* Lines 151-154, add_assignees_to_pull_request (lines 107-120).
AddAssignees ==
    /\ pc = "assign"
    /\ \/ /\ issue_number = -1
          /\ pc' = "delete"
          /\ UNCHANGED <<outcome, calls, output>>
       \/ /\ issue_number # -1
          /\ \E answer \in AssigneeAnswers :
                /\ calls' = Append(calls, Call("POST assignees", "", "", issue_number, answer))
                /\ \/ /\ answer.raised \/ JsonRaises(answer)
                      /\ Unwind("raised")
                      /\ UNCHANGED output
                   \/ /\ ~answer.raised /\ ~JsonRaises(answer)
                      /\ answer.status # StatusCreated
                      /\ output' = output \cup {"assignees failed"}
                      /\ pc' = "delete"
                      /\ UNCHANGED outcome
                   \/ /\ ~answer.raised /\ ~JsonRaises(answer)
                      /\ answer.status = StatusCreated
                      /\ pc' = "delete"
                      /\ UNCHANGED <<outcome, output>>
    /\ UNCHANGED <<remoteVars, run, history, github_api_url, tmp, localFile, work,
                   issue_number, yamlSame>>

\* Line 156: delete_local_repo(local_path), the last statement of the block.
DeleteLocalRepo ==
    /\ pc = "delete"
    /\ tmp' = delete_local_repo(tmp)
    /\ pc' = "unwind"
    /\ UNCHANGED <<remoteVars, run, history, outcome, github_api_url, localFile, work,
                   calls, issue_number, yamlSame, output>>

\* Line 133, leaving the with block: TemporaryDirectory.__exit__.
ExitTmp ==
    /\ pc = "unwind"
    /\ LET c == TmpCleanup(tmp.exists)
       IN  /\ tmp' = [tmp EXCEPT !.exists = c.exists]
           /\ outcome' = IF c.raises THEN "raised"
                          ELSE IF outcome = "running" THEN "completed" ELSE outcome
    /\ pc' = "done"
    /\ UNCHANGED <<remoteVars, run, history, github_api_url, localFile, work, calls,
                   issue_number, yamlSame, output>>

\* TRUE when the run's POST {api}/pulls was answered 201 Created.
PrCreated == \E i \in 1..Len(calls) :
    calls[i].op = "POST pulls" /\ ~calls[i].answer.raised
    /\ calls[i].answer.status = StatusCreated

\* The tool is started again on the same repository (lines 123-131); the
\* repository, its branches and pull requests are as the last run left them.
NextRun ==
    /\ pc = "done"
    /\ run < MaxRuns
    /\ run' = run + 1
    /\ history' = Append(history, [same |-> yamlSame, pr |-> PrCreated, outcome |-> outcome])
    /\ pc' = "start"
    /\ outcome' = "running"
    /\ github_api_url' = <<>>
    /\ tmp' = NoTmp
    /\ localFile' = NoFile
    /\ work' = NoWork
    /\ calls' = <<>>
    /\ issue_number' = 0
    /\ yamlSame' = "unchecked"
    /\ output' = {}
    /\ UNCHANGED remoteVars

Next ==
    \/ ResolveUrl
    \/ EnterTmp
    \/ CloneRepo
    \/ SetPermissions
    \/ CreateFolderStructure
    \/ CheckYaml
    \/ CopyTemplate
    \/ CommitAndPush
    \/ CreatePullRequest
    \/ AddAssignees
    \/ DeleteLocalRepo
    \/ ExitTmp

\* One run of the tool.
Spec == Init /\ [][Next]_vars

NextRuns ==
    \/ Next
    \/ NextRun

\* Up to MaxRuns runs in a row against the same repository.
SpecRuns == Init /\ [][NextRuns]_vars

\* ------------------------------------------------------ URL resolution
NameChars == {"a", ".", "g", "i", "t"}
\* Paths /u/<name>, /u/<name>/ and /u/<name>/x, and the one-part path /u.
UrlPaths ==
    {<<"/", "u">>} \cup
    {<<"/", "u", "/">> \o name \o rest :
        name \in SeqsUpTo(NameChars, MaxNameLen) \ {<<>>},
        rest \in {<<>>, <<"/">>, <<"/", "x">>}}

InitUrl ==
    /\ env = [s \in Settings |-> TRUE]
    /\ repo_url \in UrlPaths
    /\ defaultBranch = "main"
    /\ remoteFile = NoFile
    /\ remoteBranch = FALSE
    /\ prCount = 0
    /\ perms = "read"
    /\ run = 1
    /\ history = <<>>
    /\ FreshRun

\* get_api_url applied to every path of UrlPaths.
SpecUrl == InitUrl /\ [][ResolveUrl]_vars

\* --------------------------------------------------------------- claims
PutCalls == {i \in 1..Len(calls) : calls[i].op = "PUT permissions"}
PullCalls == {i \in 1..Len(calls) : calls[i].op = "POST pulls"}
AssigneeCalls == {i \in 1..Len(calls) : calls[i].op = "POST assignees"}

\* C1: once a run that created the temporary directory has ended, the
\* directory is gone, whatever the exit path (completion, exit(0), an
\* exception); and a run that reached delete_local_repo still ends as a
\* success (completed or exit code 0), not as a failure of the cleanup.
C1_WorkspaceRemoved ==
    (pc = "done" /\ tmp.created) =>
        /\ ~tmp.exists
        /\ tmp.rmtree => outcome \in {"completed", "exit0"}

\* A run that opened and assigned a pull request, removed the directory
\* itself at line 156 and then left the with block.
C1_Witness ==
    /\ pc = "done"
    /\ tmp.created /\ tmp.rmtree
    /\ outcome = "completed"
    /\ AssigneeCalls # {}

\* A run ended by an exception inside the with block, after the commit.
C1_WitnessRaised ==
    /\ pc = "done"
    /\ tmp.created /\ ~tmp.rmtree
    /\ outcome = "raised"
    /\ work.committed

\* Value a key ends up with in a YAML text: that of its last line.
Effective(text, k) ==
    LET at == {i \in 1..Len(text) : text[i].t = "kv" /\ text[i].k = k}
    IN  IF at = {} THEN "absent" ELSE text[CHOOSE i \in at : \A j \in at : j <= i].v

\* The file parses and means what the template means.
EquivalentToTemplate(file) ==
    /\ file.exists
    /\ \A i \in 1..Len(file.text) : file.text[i].t # "bad"
    /\ \A k \in {"name", "on"} : Effective(file.text, k) = Effective(Template, k)

\* C3: when the clone holds a workflow file equivalent to the template,
\* the file is left as it was, no branch, commit or push is made, no POST
\* is issued, and the check is followed by exit(0) only.
C3_AlreadyPresentStops ==
    (work.cloned /\ EquivalentToTemplate(remoteFile)) =>
        /\ localFile = remoteFile
        /\ ~work.branch /\ ~work.committed /\ ~work.pushed /\ ~remoteBranch
        /\ PullCalls = {} /\ AssigneeCalls = {}
        /\ prCount = 0
        /\ pc \notin {"copy", "push", "pr", "assign", "delete"}
        /\ yamlSame \in {"unchecked", "same"}
        /\ yamlSame = "same" => outcome = "exit0" /\ "already enabled" \in output

\* The existing file has a comment and the template's keys in the other
\* order; the run has ended with exit(0).
C3_Witness ==
    /\ pc = "done"
    /\ remoteFile = File(<<Comment, KV("on", "a"), KV("name", "a")>>)
    /\ yamlSame = "same"
    /\ outcome = "exit0"

C2_SecondRunAlreadyPresent ==
    (run = 2 /\ history[1].pr) =>
        /\ yamlSame \in {"unchecked", "same"}
        /\ ~PrCreated

\* C4: when the cloned workflow file is not parseable YAML, the check, once
\* made, says "different" (the run is not ended by the check), and a run
\* that got past it has overwritten the file with the template.
C4_MalformedIsDifferent ==
    (work.cloned /\ remoteFile.exists /\ YamlRaises(remoteFile.text)) =>
        /\ yamlSame \in {"unchecked", "different"}
        /\ pc \in {"push", "pr", "assign", "delete"} => localFile = File(Template)

Is2xx(status) == status \in 200..299

\* C5: for the answer the pull-request call returned: a non-2xx status is
\* reported, is followed by no assignee call, and the run ends completed
\* with the directory removed; a 2xx status is followed, once the assignee
\* step is over, by exactly one assignee call carrying the issue number.
C5_PullRequestAnswer ==
    \A i \in PullCalls :
        LET answer == calls[i].answer
        IN  /\ (~answer.raised /\ ~Is2xx(answer.status)) =>
                  /\ "pull request failed" \in output
                  /\ AssigneeCalls = {}
                  /\ outcome # "raised"
                  /\ pc = "done" => (outcome = "completed" /\ ~tmp.exists)
            /\ (~answer.raised /\ Is2xx(answer.status) /\ pc \in {"delete", "unwind", "done"}) =>
                  /\ Cardinality(AssigneeCalls) = 1
                  /\ \A j \in AssigneeCalls : calls[j].number = issue_number /\ j > i

\* What the claim says of the name: only a trailing ".git" is removed.
RemoveSuffix(name) ==
    IF HasSuffix(name, DotGit) THEN SubSeq(name, 1, Len(name) - Len(DotGit)) ELSE name

\* C6: for a path of two parts or more the resolved endpoint is
\* https://api.github.com/repos/{first part}/{second part without a
\* trailing ".git"}.
C6_SuffixOnly ==
    (pc # "start" /\ Len(PathParts(repo_url)) >= 2) =>
        github_api_url =
            ApiPrefix \o PathParts(repo_url)[1] \o <<Slash>>
                \o RemoveSuffix(PathParts(repo_url)[2])

\* C7: with one of the four settings absent, the run ends with an error
\* before the clone and without any REST call or push.
C7_MissingSettingFailsFast ==
    (\E s \in Settings : ~env[s]) =>
        /\ ~work.cloned
        /\ calls = <<>>
        /\ ~work.pushed

\* C8: every pull-request call names head enable-dependabot-auto-merge and
\* the repository's default branch as base.
C8_BaseIsDefaultBranch ==
    \A i \in PullCalls :
        /\ calls[i].head = BranchName
        /\ calls[i].base = defaultBranch

PutFailed == \E i \in PutCalls :
    calls[i].answer.raised \/ calls[i].answer.status # StatusNoContent

\* C9: the PUT is issued at most once in a run, and a run whose PUT failed
\* (an answer other than 204, or a request that failed) still goes on to
\* the idempotency check.
C9_PermissionFailureNotFatal ==
    /\ Cardinality(PutCalls) <= 1
    /\ (PutFailed /\ pc \in {"unwind", "done"}) => yamlSame # "unchecked"

====
